---- MODULE Spec2Model ----
(***************************************************************************)
(* Model of package deep (src/deep.go): deep.Equal walks two values in     *)
(* lockstep through reflection and collects difference strings.            *)
(*                                                                         *)
(* reflect.Values are references into a heap of objects.  Id 0 is the      *)
(* invalid (zero) reflect.Value.  The recursion of cmp.equals is an        *)
(* explicit stack of frames; one action is one path through a stretch of   *)
(* straight-line code of cmp.equals.  A run-time panic raised by reflect   *)
(* ends the call with status "panic".                                      *)
(***************************************************************************)
EXTENDS FiniteSets, Integers, Sequences, TLC

\* Largest MaxDiff / MaxDepth the configuration is drawn from.
MaxDiffBound == 3
MaxDepthBound == 3

----------------------------------------------------------------------------
\* The values handed to Equal.

NoKids == << >>

Obj(kind, type, n, s, elem, kids, isnil, ptr) ==
  [kind |-> kind, type |-> type, n |-> n, s |-> s, elem |-> elem,
   kids |-> kids, isnil |-> isnil, ptr |-> ptr]

Kid(name, exp, val) == [name |-> name, exp |-> exp, val |-> val]

IntV(n)        == Obj("int", "int", n, "", 0, NoKids, FALSE, 0)
Int64V(n)      == Obj("int64", "int64", n, "", 0, NoKids, FALSE, 0)
StrV(s)        == Obj("string", "string", 0, s, 0, NoKids, FALSE, 0)
BoolV(n)       == Obj("bool", "bool", n, "", 0, NoKids, FALSE, 0)
UintV(n)       == Obj("uint", "uint", n, "", 0, NoKids, FALSE, 0)
\* A float64 of n * 1e-11; s is what %v prints for it.
FloatV(n, s)   == Obj("float64", "float64", n, s, 0, NoKids, FALSE, 0)
FuncV(p)       == Obj("func", "func()", 0, "", 0, NoKids, FALSE, p)
IfaceV(e)      == Obj("iface", "interface {}", 0, "", e, NoKids, FALSE, 0)
PtrV(t, e)     == Obj("ptr", t, 0, "", e, NoKids, e = 0, e)
StructV(t, n, kids) == Obj("struct", t, n, "", 0, kids, FALSE, 0)
MapV(t, kids, p)    == Obj("map", t, 0, "", 0, kids, p = 0, p)
SliceV(t, kids, p)  == Obj("slice", t, 0, "", 0, kids, p = 0, p)
ArrayV(t, kids)     == Obj("array", t, 0, "", 0, kids, FALSE, 0)

\* type T struct { A int; B int; c int }
TV(fa, fb, fc) == StructV("deep.T", 0, << Kid("A", TRUE, fa), Kid("B", TRUE, fb), Kid("c", FALSE, fc) >>)
\* type W struct { I interface{} }
WV(i)        == StructV("deep.W", 0, << Kid("I", TRUE, i) >>)
\* type Time struct { wall int; ext int }; func (Time) Equal(Time) bool
\* compares the instant n, not the representation.
TimeV(w, e, n) == StructV("deep.Time", n, << Kid("wall", FALSE, w), Kid("ext", FALSE, e) >>)
\* type N struct { Next *N; V int }
NV(nx, v)    == StructV("deep.N", 0, << Kid("Next", TRUE, nx), Kid("V", TRUE, v) >>)
\* type H struct { t Time; M map[string]int; S []T }
HV(t, m, s)  == StructV("deep.H", 0, << Kid("t", FALSE, t), Kid("M", TRUE, m), Kid("S", TRUE, s) >>)

E(k, v) == Kid(k, TRUE, v)
El(v)   == Kid("", TRUE, v)

Heap ==
  << IntV(1),                                         \*  1
     IntV(2),                                         \*  2
     Int64V(1),                                       \*  3
     StrV("x"),                                       \*  4
     StrV("y"),                                       \*  5
     BoolV(1),                                        \*  6
     BoolV(0),                                        \*  7
     FuncV(8),                                        \*  8
     IfaceV(1),                                       \*  9  interface{}(1)
     IfaceV(2),                                       \* 10  interface{}(2)
     IfaceV(3),                                       \* 11  interface{}(int64(1))
     IfaceV(4),                                       \* 12  interface{}("x")
     IfaceV(0),                                       \* 13  interface{}(nil)
     IfaceV(6),                                       \* 14  interface{}(true)
     IfaceV(24),                                      \* 15  interface{}(T{1,1,1})
     IfaceV(38),                                      \* 16  interface{}(map 38)
     IfaceV(45),                                      \* 17  interface{}(slice 45)
     IfaceV(8),                                       \* 18  interface{}(func)
     IfaceV(52),                                      \* 19  interface{}(Time)
     IfaceV(65),                                      \* 20  interface{}([]int{})
     PtrV("*int", 1),                                 \* 21
     PtrV("*int", 2),                                 \* 22
     PtrV("*int", 0),                                 \* 23  (*int)(nil)
     TV(1, 1, 1),                                     \* 24
     TV(2, 2, 1),                                     \* 25
     TV(1, 1, 2),                                     \* 26
     WV(9),                                           \* 27
     WV(10),                                          \* 28
     WV(11),                                          \* 29
     WV(12),                                          \* 30
     WV(13),                                          \* 31
     WV(14),                                          \* 32
     WV(15),                                          \* 33
     WV(16),                                          \* 34
     WV(17),                                          \* 35
     WV(18),                                          \* 36
     WV(19),                                          \* 37
     MapV("map[string]int", << E("k1", 1), E("k2", 2) >>, 38),        \* 38
     MapV("map[string]int", << E("k1", 1) >>, 39),                    \* 39
     MapV("map[string]int", << E("k1", 2), E("k3", 1) >>, 40),        \* 40
     MapV("map[string]int", NoKids, 0),                               \* 41  nil map
     MapV("map[string]int", << E("k1", 1), E("k2", 2) >>, 42),        \* 42  copy of 38
     MapV("map[string]interface {}", << E("k1", 9), E("k2", 12) >>, 43),              \* 43
     MapV("map[string]interface {}", << E("k1", 12), E("k2", 10), E("k3", 13) >>, 44), \* 44
     SliceV("[]int", << El(1), El(2) >>, 45),                         \* 45  s
     SliceV("[]int", << El(1) >>, 45),                                \* 46  s[:1]
     SliceV("[]int", << El(2) >>, 47),                                \* 47
     SliceV("[]int", << El(2), El(1), El(1) >>, 48),                  \* 48
     SliceV("[]int", NoKids, 0),                                      \* 49  nil slice
     ArrayV("[2]int", << El(1), El(2) >>),                            \* 50
     ArrayV("[2]int", << El(1), El(1) >>),                            \* 51
     TimeV(1, 1, 1),                                  \* 52
     TimeV(2, 1, 1),                                  \* 53  same instant as 52
     TimeV(2, 2, 2),                                  \* 54
     NV(56, 1),                                       \* 55  cyclic: 55.Next = &55
     PtrV("*deep.N", 55),                             \* 56
     NV(58, 2),                                       \* 57  cyclic: 57.Next = &57
     PtrV("*deep.N", 57),                             \* 58
     PtrV("*deep.N", 0),                              \* 59
     NV(59, 1),                                       \* 60
     HV(52, 38, 63),                                  \* 61
     HV(54, 40, 64),                                  \* 62
     SliceV("[]deep.T", << El(24), El(25) >>, 63),                    \* 63
     SliceV("[]deep.T", << El(25), El(24), El(26) >>, 64),            \* 64
     SliceV("[]int", NoKids, 65),                                     \* 65  []int{}
     WV(20),                                          \* 66
     IfaceV(54),                                      \* 67  interface{}(Time)
     WV(67),                                          \* 68
     FloatV(1, "1e-11"),                              \* 69
     FloatV(4, "4e-11"),                              \* 70
     FloatV(60, "6e-10"),                             \* 71
     UintV(1),                                        \* 72
     UintV(2),                                        \* 73
     IfaceV(70),                                      \* 74  interface{}(4e-11)
     WV(74),                                          \* 75
     IfaceV(72),                                      \* 76  interface{}(uint(1))
     WV(76)                                           \* 77
  >>

Invalid == 0

\* The values Equal is called with: nil, or any value that is not a bare
\* interface slot (reflect.ValueOf never yields Kind Interface).
Roots == {Invalid} \cup {id \in 1..Len(Heap) : Heap[id].kind # "iface"}

----------------------------------------------------------------------------
\* reflect and fmt, as far as deep.go uses them.

IsValid(v) == v # Invalid

Kind(v) == IF IsValid(v) THEN Heap[v].kind ELSE "invalid"

Type(v) == Heap[v].type

\* Value.Elem of a pointer or an interface; the zero Value when it is nil.
Elem(v) == Heap[v].elem

\* Lines 93-108: dereference once when the kind is Ptr or Interface.
Unwrap(v) == IF Kind(v) \in {"ptr", "iface"} THEN Elem(v) ELSE v

\* Lines 98-100: the type is replaced by the element's only if it is valid.
UnwrapType(v) == IF IsValid(Unwrap(v)) THEN Type(Unwrap(v)) ELSE Type(v)

\* The method lookup finding nothing.
hasNoEqual(v) == FALSE

\* Value.MethodByName("Equal").IsValid()
TypesWithEqual == {"deep.Time"}
HasEqual(v) == Type(v) \in TypesWithEqual

CanIsNil   == {"chan", "func", "iface", "map", "ptr", "slice"}
CanPointer == {"chan", "func", "map", "ptr", "slice"}
CanLen     == {"array", "chan", "map", "slice", "string"}
CanIndex   == {"array", "slice", "string"}
IntKinds   == {"int", "int8", "int16", "int32", "int64"}
UintKinds  == {"uint", "uint8", "uint16", "uint32", "uint64"}
FloatKinds == {"float32", "float64"}

IsNil(v)   == Heap[v].isnil
Pointer(v) == Heap[v].ptr
NumField(v) == Len(Heap[v].kids)
Field(v, i) == Heap[v].kids[i]
LenOf(v)   == Len(Heap[v].kids)
Index(v, i) == Heap[v].kids[i + 1].val
MapKeys(v) == {Heap[v].kids[i].name : i \in 1..Len(Heap[v].kids)}
HasKey(v, k) == k \in MapKeys(v)
MapIndex(v, k) == LET i == CHOOSE j \in 1..Len(Heap[v].kids) : Heap[v].kids[j].name = k
                  IN Heap[v].kids[i].val

Digits == << "0", "1", "2", "3", "4", "5", "6", "7", "8", "9" >>
Itoa(n) == Digits[n + 1]

RECURSIVE Join(_, _)
Join(seq, sep) ==
  IF seq = << >> THEN ""
  ELSE IF Len(seq) = 1 THEN seq[1]
  ELSE seq[1] \o sep \o Join(Tail(seq), sep)

\* fmt's %v of a reflect.Value prints the value it holds.
RECURSIVE Sprint(_)
Sprint(v) ==
  LET o == Heap[v]
      parts == [i \in 1..Len(o.kids) |->
                  IF o.kind = "map" THEN o.kids[i].name \o ":" \o Sprint(o.kids[i].val)
                  ELSE Sprint(o.kids[i].val)]
  IN CASE o.kind \in IntKinds \cup UintKinds -> Itoa(o.n)
       [] o.kind \in {"string"} \cup FloatKinds -> o.s
       [] o.kind = "bool" -> IF o.n = 1 THEN "true" ELSE "false"
       [] o.kind = "func" -> "0xf" \o Itoa(o.ptr)
       [] o.kind = "ptr" -> IF o.elem = 0 THEN "<nil>" ELSE "0xc" \o Itoa(o.elem \div 10) \o Itoa(o.elem % 10)
       [] o.kind = "iface" -> IF o.elem = 0 THEN "<nil>" ELSE Sprint(o.elem)
       [] o.kind = "struct" -> "{" \o Join(parts, " ") \o "}"
       [] o.kind = "map" -> "map[" \o Join(parts, " ") \o "]"
       [] OTHER -> "[" \o Join(parts, " ") \o "]"

\* Value.String() of a value that is not a string does not panic.
String(v) == IF Kind(v) = "string" THEN Heap[v].s ELSE "<" \o Type(v) \o " Value>"

----------------------------------------------------------------------------
\* The comparison session and the call stack of cmp.equals.

VARIABLES
  a, b,                      \* the arguments of Equal, as reflect.Values
  MaxDiff, MaxDepth,         \* package configuration
  CompareUnexportedFields,
  LogErrors,
  diff,                      \* c.diff
  buff,                      \* c.buff
  stack,                     \* active calls of c.equals, innermost last
  status,                    \* "running", "returned" or "panic"
  ret,                       \* what Equal returned
  errlog,                    \* what logError printed
  recs,                      \* history: one entry per element of diff
  calls                      \* history: every call of c.equals, in order

config == << a, b, MaxDiff, MaxDepth, CompareUnexportedFields, LogErrors >>
vars == << a, b, MaxDiff, MaxDepth, CompareUnexportedFields, LogErrors,
           diff, buff, stack, status, ret, errlog, recs, calls >>

ErrMaxRecursion == "recursed to MaxDepth"
ErrTypeMismatch == "variables are different reflect.Type"
ErrNotHandled   == "cannot compare the reflect.Kind"

\* One activation of c.equals(a, b, level).  pc is the place it is at, i the
\* loop index, todo the keys the range loop has not yielded yet, ro whether
\* the values were obtained through an unexported field.
Frame(x, y, level, ro) ==
  [a |-> x, b |-> y, level |-> level, pc |-> "enter", i |-> 0, todo |-> {}, ro |-> ro]

CallRec(path, x, y, level) == [path |-> path, a |-> x, b |-> y, level |-> level]

\* cmp.saveDiff: the string appended to c.diff while c.buff is path.
saveDiff(path, aval, bval) ==
  IF Len(path) > 0
  THEN Join(path, ".") \o ": " \o aval \o " != " \o bval
  ELSE aval \o " != " \o bval

\* cmp.push
push(bf, name) == Append(bf, name)

\* A pop that leaves the segment on the stack.
popNothing(bf) == bf

\* cmp.pop
pop(bf) == IF Len(bf) > 0 THEN SubSeq(bf, 1, Len(bf) - 1) ELSE bf

\* logError
logError(err) == IF LogErrors THEN Append(errlog, err) ELSE errlog

\* The test off by one: > for >=.
capReachedLate(d) == Len(d) > MaxDiff

\* len(c.diff) >= MaxDiff, the test that ends the struct, map and slice loops.
capReached(d) == Len(d) >= MaxDiff

\* The pairs Equal is called with: every two roots of one type, and, for
\* the pairs of different types (which end at line 87 whatever the values
\* are), every two of a set that holds nil and one root of each type.
Probes == {Invalid} \cup {x \in Roots \ {Invalid} :
                            \A y \in Roots \ {Invalid} : Type(y) = Type(x) => x <= y}
Pairs == {p \in Roots \X Roots :
            \/ p[1] # Invalid /\ p[2] # Invalid /\ Type(p[1]) = Type(p[2])
            \/ p[1] \in Probes /\ p[2] \in Probes}

Init ==
  /\ \E p \in Pairs : a = p[1] /\ b = p[2]
  /\ MaxDiff \in 1..MaxDiffBound
  /\ MaxDepth \in 0..MaxDepthBound
  /\ CompareUnexportedFields \in BOOLEAN
  /\ LogErrors \in BOOLEAN
  /\ diff = << >>
  /\ buff = << >>
  /\ stack = << Frame(a, b, 0, FALSE) >>
  /\ status = "running"
  /\ ret = << >>
  /\ errlog = << >>
  /\ recs = << >>
  /\ calls = << CallRec(<< >>, a, b, 0) >>

top == stack[Len(stack)]
rest == SubSeq(stack, 1, Len(stack) - 1)

Running == status = "running" /\ stack # << >>
At(pc) == Running /\ top.pc = pc

\* The innermost call returns to its caller.
Return == stack' = rest

\* The innermost call goes on at pc with loop state i, todo.
Goto(pc, i, todo) ==
  stack' = Append(rest, [top EXCEPT !.pc = pc, !.i = i, !.todo = todo])

\* The innermost call, having unwrapped its arguments, starts a loop.
Begin(pc, todo) ==
  stack' = Append(rest, [top EXCEPT !.a = Unwrap(top.a), !.b = Unwrap(top.b),
                                    !.pc = pc, !.i = 0, !.todo = todo])

\* The innermost call waits at pc for c.equals(x, y, level+1).
Call(pc, i, todo, path, x, y, ro) ==
  /\ stack' = Append(Append(rest, [top EXCEPT !.pc = pc, !.i = i, !.todo = todo]),
                     Frame(x, y, top.level + 1, ro))
  /\ calls' = Append(calls, CallRec(path, x, y, top.level + 1))

\* c.saveDiff(aval, bval) with c.buff = path.
Save(path, depth, tag, aval, bval) ==
  /\ diff' = Append(diff, saveDiff(path, aval, bval))
  /\ recs' = Append(recs, [path |-> path, depth |-> depth, tag |-> tag])

NoSave == UNCHANGED << diff, recs >>

Panic ==
  /\ status' = "panic"
  /\ UNCHANGED << config, diff, buff, stack, ret, errlog, recs, calls >>

\* The depth guard with its bound one too high.
tooDeepLate(level) == level > MaxDepth + 1

\* Line 80.
tooDeep(level) == level > MaxDepth

\* How far the prologue of c.equals gets (lines 80-128).
Typed == /\ At("enter")
         /\ ~tooDeep(top.level)
         /\ IsValid(top.a) /\ IsValid(top.b)
         /\ Type(top.a) = Type(top.b)
ua == Unwrap(top.a)
ub == Unwrap(top.b)
Present == Typed /\ IsValid(ua) /\ IsValid(ub)
Plain == Present /\ ~HasEqual(ua)

\* Lines 80-83.
MaxRecursion ==
  /\ At("enter")
  /\ tooDeep(top.level)
  /\ errlog' = logError(ErrMaxRecursion)
  /\ Return
  /\ UNCHANGED << config, diff, buff, status, ret, recs, calls >>

\* Lines 85-86: Value.Type panics on the zero Value.
TypePanic ==
  /\ At("enter")
  /\ ~tooDeep(top.level)
  /\ ~IsValid(top.a) \/ ~IsValid(top.b)
  /\ Panic

\* Lines 87-91.
TypeMismatch ==
  /\ At("enter")
  /\ ~tooDeep(top.level)
  /\ IsValid(top.a) /\ IsValid(top.b)
  /\ Type(top.a) # Type(top.b)
  /\ Save(buff, top.level, "type", Type(top.a), Type(top.b))
  /\ errlog' = logError(ErrTypeMismatch)
  /\ Return
  /\ UNCHANGED << config, buff, status, ret, calls >>

\* Lines 111-118.
NilPointer ==
  /\ Typed
  /\ ~IsValid(ua) \/ ~IsValid(ub)
  /\ IF IsValid(ua) /\ ~IsValid(ub)
       THEN Save(buff, top.level, "nilptr", UnwrapType(top.a), "<nil pointer>")
     ELSE IF ~IsValid(ua) /\ IsValid(ub)
       THEN Save(buff, top.level, "nilptr", "<nil pointer>", UnwrapType(top.b))
     ELSE NoSave
  /\ Return
  /\ UNCHANGED << config, buff, status, ret, errlog, calls >>

\* What the Equal method of the modelled type answers.
EqualFn(x, y) == Heap[x].n = Heap[y].n

\* Value.Call panics on a method obtained through an unexported field and on
\* an argument that is not assignable to the parameter.
callPanics(ro, x, y) == ro \/ Type(y) # Type(x)
CallPanics == callPanics(top.ro, ua, ub)

\* Lines 121-128.
EqualMethod ==
  /\ Present
  /\ HasEqual(ua)
  /\ ~CallPanics
  /\ IF ~EqualFn(ua, ub)
       THEN Save(buff, top.level, "equal", Sprint(ua), Sprint(ub))
       ELSE NoSave
  /\ Return
  /\ UNCHANGED << config, buff, status, ret, errlog, calls >>

\* Line 123.
CallPanic ==
  /\ Present
  /\ HasEqual(ua)
  /\ CallPanics
  /\ Panic

\* Line 136: the struct case starts its loop.
StructCase ==
  /\ Plain
  /\ Kind(ua) = "struct"
  /\ Begin("struct", {})
  /\ UNCHANGED << config, diff, buff, status, ret, errlog, recs, calls >>

\* Value.Field panics on a value that is no struct or has no field i.
FieldPanics(v, i) == Kind(v) # "struct" \/ i >= NumField(v)

\* Lines 147-160: one field, up to the recursive call.
StructField ==
  /\ At("struct")
  /\ top.i < NumField(top.a)
  /\ LET f == Field(top.a, top.i + 1)
     IN IF ~f.exp /\ ~CompareUnexportedFields
          THEN /\ Goto("struct", top.i + 1, {})
               /\ UNCHANGED << buff, calls >>
          ELSE /\ ~FieldPanics(top.b, top.i)
               /\ buff' = push(buff, f.name)
               /\ Call("structRet", top.i, {}, buff', f.val,
                       Field(top.b, top.i + 1).val, top.ro \/ ~f.exp)
  /\ UNCHANGED << config, diff, status, ret, errlog, recs >>

\* Line 157.
StructPanic ==
  /\ At("struct")
  /\ top.i < NumField(top.a)
  /\ Field(top.a, top.i + 1).exp \/ CompareUnexportedFields
  /\ FieldPanics(top.b, top.i)
  /\ Panic

\* Lines 162-166: the call returned.
StructPop ==
  /\ At("structRet")
  /\ buff' = pop(buff)
  /\ IF capReached(diff) THEN Return ELSE Goto("struct", top.i + 1, {})
  /\ UNCHANGED << config, diff, status, ret, errlog, recs, calls >>

\* Line 147: no field is left.
StructEnd ==
  /\ At("struct")
  /\ top.i >= NumField(top.a)
  /\ Return
  /\ UNCHANGED << config, diff, buff, status, ret, errlog, recs, calls >>

\* fmt.Sprintf("map[%s]", key)
mapSeg(k) == "map[" \o k \o "]"

\* fmt.Sprintf("slice[%d]", i)
sliceSeg(i) == "slice[" \o Itoa(i) \o "]"

\* Lines 184-191 and 228-235.  sentinel is "<nil map>" or "<nil slice>".
NilCase(kind, tag, sentinel) ==
  /\ Plain
  /\ Kind(ua) = kind
  /\ Kind(ub) \in CanIsNil
  /\ IsNil(ua) \/ IsNil(ub)
  /\ IF IsNil(ua) /\ ~IsNil(ub)
       THEN Save(buff, top.level, tag, sentinel, Sprint(ub))
     ELSE IF ~IsNil(ua) /\ IsNil(ub)
       THEN Save(buff, top.level, tag, Sprint(ua), sentinel)
     ELSE NoSave
  /\ Return
  /\ UNCHANGED << config, buff, status, ret, errlog, calls >>

\* Both containers are there (past lines 191 and 235).
BothThere(kind) ==
  /\ Plain
  /\ Kind(ua) = kind
  /\ Kind(ub) \in CanIsNil
  /\ ~IsNil(ua) /\ ~IsNil(ub)

\* Lines 193-195 and 237-239: the same underlying pointer.
SameCase(kind) ==
  /\ BothThere(kind)
  /\ Kind(ub) \in CanPointer
  /\ Pointer(ua) = Pointer(ub)
  /\ Return
  /\ UNCHANGED << config, diff, buff, status, ret, errlog, recs, calls >>

MapNil == NilCase("map", "nilmap", "<nil map>")

MapSame == SameCase("map")

\* Line 197: the map case starts its first loop.
MapCase ==
  /\ BothThere("map")
  /\ Kind(ub) \in CanPointer
  /\ Pointer(ua) # Pointer(ub)
  /\ Begin("mapA", MapKeys(ua))
  /\ UNCHANGED << config, diff, buff, status, ret, errlog, recs, calls >>

\* Lines 197-212: one key of a, in whatever order range yields the keys.
MapKeyA ==
  /\ At("mapA")
  /\ Kind(top.b) = "map"
  /\ \E key \in top.todo :
       LET path == push(buff, mapSeg(key))
           aVal == MapIndex(top.a, key)
       IN IF HasKey(top.b, key)
            THEN /\ buff' = path
                 /\ Call("mapARet", 0, top.todo \ {key}, path, aVal,
                         MapIndex(top.b, key), top.ro)
                 /\ NoSave
            ELSE /\ Save(path, top.level + 1, "nokeyB", Sprint(aVal), "<does not have key>")
                 /\ buff' = pop(path)
                 /\ IF capReached(diff') THEN Return
                    ELSE Goto("mapA", 0, top.todo \ {key})
                 /\ UNCHANGED calls
  /\ UNCHANGED << config, status, ret, errlog >>

\* Lines 208-212: the call returned.
MapPop ==
  /\ At("mapARet")
  /\ buff' = pop(buff)
  /\ IF capReached(diff) THEN Return ELSE Goto("mapA", 0, top.todo)
  /\ UNCHANGED << config, diff, status, ret, errlog, recs, calls >>

\* The map case without its second loop.
MapNextNoSecondLoop ==
  /\ At("mapA")
  /\ top.todo = {}
  /\ Kind(top.b) = "map"
  /\ Return
  /\ UNCHANGED << config, diff, buff, status, ret, errlog, recs, calls >>

\* Line 215: the first loop is over, the second starts.
MapNext ==
  /\ At("mapA")
  /\ top.todo = {}
  /\ Kind(top.b) = "map"
  /\ Goto("mapB", 0, MapKeys(top.b))
  /\ UNCHANGED << config, diff, buff, status, ret, errlog, recs, calls >>

\* The second loop without the test of line 216: every key of b is reported.
MapKeyBNoLookup ==
  /\ At("mapB")
  /\ \E key \in top.todo :
       LET path == push(buff, mapSeg(key))
       IN /\ Save(path, top.level + 1, "nokeyA", "<does not have key>",
                  Sprint(MapIndex(top.b, key)))
          /\ IF capReached(diff') THEN Return
             ELSE Goto("mapB", 0, top.todo \ {key})
  /\ buff' = buff
  /\ UNCHANGED << config, status, ret, errlog, calls >>

\* Lines 215-226: one key of b.
MapKeyB ==
  /\ At("mapB")
  /\ \E key \in top.todo :
       IF HasKey(top.a, key)
         THEN /\ Goto("mapB", 0, top.todo \ {key})
              /\ NoSave
         ELSE LET path == push(buff, mapSeg(key))
              IN /\ Save(path, top.level + 1, "nokeyA", "<does not have key>",
                         Sprint(MapIndex(top.b, key)))
                 /\ IF capReached(diff') THEN Return
                    ELSE Goto("mapB", 0, top.todo \ {key})
  /\ buff' = buff
  /\ UNCHANGED << config, status, ret, errlog, calls >>

\* Line 226: no key of b is left.
MapEnd ==
  /\ At("mapB")
  /\ top.todo = {}
  /\ Return
  /\ UNCHANGED << config, diff, buff, status, ret, errlog, recs, calls >>

\* Lines 184, 193, 201, 215: IsNil or Pointer on a value that has none,
\* MapIndex or MapKeys on a value that is no map.
MapPanic ==
  /\ \/ Plain /\ Kind(ua) = "map" /\ Kind(ub) \notin CanIsNil
     \/ BothThere("map") /\ Kind(ub) \notin CanPointer
     \/ At("mapA") /\ Kind(top.b) # "map"
  /\ Panic

SliceNil == NilCase("slice", "nilslice", "<nil slice>")

SliceSame == SameCase("slice")

\* Lines 241-247: the slice case starts its loop.
SliceCase ==
  /\ BothThere("slice")
  /\ Kind(ub) \in CanPointer
  /\ Pointer(ua) # Pointer(ub)
  /\ Kind(ub) \in CanLen
  /\ Begin("slice", {})
  /\ UNCHANGED << config, diff, buff, status, ret, errlog, recs, calls >>

\* n of lines 243-246.
maxLen(x, y) == IF LenOf(y) > LenOf(x) THEN LenOf(y) ELSE LenOf(x)

\* The iteration of lines 247-260 reads b.Index(i).
ReadsB(f) == f.i >= LenOf(f.a) \/ f.i < LenOf(f.b)

\* Lines 247-260: one index.
SliceElem ==
  /\ At("slice")
  /\ top.i < maxLen(top.a, top.b)
  /\ ReadsB(top) => Kind(top.b) \in CanIndex
  /\ LET path == push(buff, sliceSeg(top.i))
     IN IF top.i < LenOf(top.a) /\ top.i < LenOf(top.b)
          THEN /\ buff' = path
               /\ Call("sliceRet", top.i, {}, path, Index(top.a, top.i),
                       Index(top.b, top.i), top.ro)
               /\ NoSave
          ELSE /\ IF top.i < LenOf(top.a)
                    THEN Save(path, top.level + 1, "novalB",
                              Sprint(Index(top.a, top.i)), "<no value>")
                    ELSE Save(path, top.level + 1, "novalA",
                              "<no value>", Sprint(Index(top.b, top.i)))
               /\ buff' = pop(path)
               /\ IF capReached(diff') THEN Return ELSE Goto("slice", top.i + 1, {})
               /\ UNCHANGED calls
  /\ UNCHANGED << config, status, ret, errlog >>

\* Lines 256-259: the call returned.
SlicePop ==
  /\ At("sliceRet")
  /\ buff' = pop(buff)
  /\ IF capReached(diff) THEN Return ELSE Goto("slice", top.i + 1, {})
  /\ UNCHANGED << config, diff, status, ret, errlog, recs, calls >>

\* Line 247: no index is left.
SliceEnd ==
  /\ At("slice")
  /\ top.i >= maxLen(top.a, top.b)
  /\ Return
  /\ UNCHANGED << config, diff, buff, status, ret, errlog, recs, calls >>

\* Lines 228, 237, 242, 250, 254: IsNil, Pointer, Len or Index on a value
\* that has none.
SlicePanic ==
  /\ \/ Plain /\ Kind(ua) = "slice" /\ Kind(ub) \notin CanIsNil
     \/ BothThere("slice") /\ Kind(ub) \notin CanPointer
     \/ /\ BothThere("slice") /\ Kind(ub) \in CanPointer
        /\ Pointer(ua) # Pointer(ub) /\ Kind(ub) \notin CanLen
     \/ /\ At("slice") /\ top.i < maxLen(top.a, top.b)
        /\ ReadsB(top) /\ Kind(top.b) \notin CanIndex
  /\ Panic

\* A leaf compared by ==; both sides rendered by %v.
Leaf(tag, differ, aval, bval) ==
  /\ IF differ THEN Save(buff, top.level, tag, aval, bval) ELSE NoSave
  /\ Return
  /\ UNCHANGED << config, buff, status, ret, errlog, calls >>

Btoa(n) == IF n = 1 THEN "true" ELSE "false"

\* n / d rounded to the nearest integer, halves to the even one.
RoundHalfEven(n, d) ==
  LET q == n \div d
      r == n % d
  IN IF 2 * r > d \/ (2 * r = d /\ q % 2 = 1) THEN q + 1 ELSE q

\* fmt.Sprintf(c.floatFormat, f) with FloatPrecision = 10 (line 39), for a
\* float of n * 1e-11 below 1e-9: ten decimals are kept.
floatFormat(n) == "0.000000000" \o Itoa(RoundHalfEven(n, 10))

\* Lines 266-273.
FloatCase ==
  /\ Plain
  /\ Kind(ua) \in FloatKinds
  /\ Kind(ub) \in FloatKinds
  /\ Leaf("float", floatFormat(Heap[ua].n) # floatFormat(Heap[ub].n),
          Heap[ua].s, Heap[ub].s)

\* Lines 274-277.
BoolCase ==
  /\ Plain
  /\ Kind(ua) = "bool"
  /\ Kind(ub) = "bool"
  /\ Leaf("bool", Heap[ua].n # Heap[ub].n, Btoa(Heap[ua].n), Btoa(Heap[ub].n))

\* Lines 278-281.
IntCase ==
  /\ Plain
  /\ Kind(ua) \in IntKinds
  /\ Kind(ub) \in IntKinds
  /\ Leaf("int", Heap[ua].n # Heap[ub].n, Itoa(Heap[ua].n), Itoa(Heap[ub].n))

\* Lines 282-285.
UintCase ==
  /\ Plain
  /\ Kind(ua) \in UintKinds
  /\ Kind(ub) \in UintKinds
  /\ Leaf("uint", Heap[ua].n # Heap[ub].n, Itoa(Heap[ua].n), Itoa(Heap[ub].n))

\* Lines 286-289.
StringCase ==
  /\ Plain
  /\ Kind(ua) = "string"
  /\ Leaf("string", String(ua) # String(ub), String(ua), String(ub))

\* Lines 270, 275, 279, 283: Value.Float, Value.Bool, Value.Int, Value.Uint
\* on a value of another kind.
leafPanics(x, y) ==
  \/ Kind(x) \in FloatKinds /\ Kind(y) \notin FloatKinds
  \/ Kind(x) = "bool" /\ Kind(y) # "bool"
  \/ Kind(x) \in IntKinds /\ Kind(y) \notin IntKinds
  \/ Kind(x) \in UintKinds /\ Kind(y) \notin UintKinds

LeafPanic ==
  /\ Plain
  /\ leafPanics(ua, ub)
  /\ Panic

\* The kinds the switch of line 130 has a case for.
Handled == {"struct", "map", "slice", "bool", "string"}
             \cup FloatKinds \cup IntKinds \cup UintKinds

\* Lines 291-293.
NotHandled ==
  /\ Plain
  /\ Kind(ua) \notin Handled
  /\ errlog' = logError(ErrNotHandled)
  /\ Return
  /\ UNCHANGED << config, diff, buff, status, ret, recs, calls >>

\* Lines 73-76: c.equals(aVal, bVal, 0) returned to Equal.
EqualReturn ==
  /\ status = "running"
  /\ stack = << >>
  /\ status' = "returned"
  /\ ret' = IF Len(diff) > 0 THEN diff ELSE << >>
  /\ UNCHANGED << config, diff, buff, stack, errlog, recs, calls >>

Next ==
  \/ MaxRecursion \/ TypePanic \/ TypeMismatch \/ NilPointer
  \/ EqualMethod \/ CallPanic
  \/ StructCase \/ StructField \/ StructPanic \/ StructPop \/ StructEnd
  \/ MapNil \/ MapSame \/ MapCase \/ MapKeyA \/ MapPop \/ MapNext \/ MapKeyB
  \/ MapEnd \/ MapPanic
  \/ SliceNil \/ SliceSame \/ SliceCase \/ SliceElem \/ SlicePop \/ SliceEnd
  \/ SlicePanic
  \/ FloatCase \/ BoolCase \/ IntCase \/ UintCase \/ StringCase
  \/ LeafPanic \/ NotHandled
  \/ EqualReturn

Spec == Init /\ [][Next]_vars

\* Equal is a plain function call: it runs until it returns or panics.
FairSpec == Spec /\ WF_vars(Next)

----------------------------------------------------------------------------
\* cmp.equals as a function: every difference string the walk of (x, y)
\* appends when it runs to depth cap and no loop is cut short by MaxDiff.
\* A pair at which reflect panics contributes nothing.

RECURSIVE walk(_, _, _, _, _, _)
walk(x, y, level, path, ro, cap) ==
  IF level > cap \/ ~IsValid(x) \/ ~IsValid(y) THEN {}
  ELSE IF Type(x) # Type(y) THEN {saveDiff(path, Type(x), Type(y))}
  ELSE
    LET u == Unwrap(x)
        v == Unwrap(y)
        nilCase(sentinel) ==
          IF IsNil(u) /\ ~IsNil(v) THEN {saveDiff(path, sentinel, Sprint(v))}
          ELSE IF ~IsNil(u) /\ IsNil(v) THEN {saveDiff(path, Sprint(u), sentinel)}
          ELSE {}
        there == Kind(v) \in CanIsNil /\ ~IsNil(u) /\ ~IsNil(v)
                 /\ Kind(v) \in CanPointer /\ Pointer(u) # Pointer(v)
    IN
    IF ~IsValid(u) \/ ~IsValid(v) THEN
      IF IsValid(u) /\ ~IsValid(v) THEN {saveDiff(path, UnwrapType(x), "<nil pointer>")}
      ELSE IF ~IsValid(u) /\ IsValid(v) THEN {saveDiff(path, "<nil pointer>", UnwrapType(y))}
      ELSE {}
    ELSE IF HasEqual(u) THEN
      IF ~callPanics(ro, u, v) /\ ~EqualFn(u, v)
      THEN {saveDiff(path, Sprint(u), Sprint(v))} ELSE {}
    ELSE
    CASE Kind(u) = "struct" ->
           UNION { LET f == Field(u, i)
                   IN IF (~f.exp /\ ~CompareUnexportedFields) \/ FieldPanics(v, i - 1)
                      THEN {}
                      ELSE walk(f.val, Field(v, i).val, level + 1,
                                push(path, f.name), ro \/ ~f.exp, cap)
                   : i \in 1..NumField(u) }
      [] Kind(u) = "map" ->
           IF Kind(v) \in CanIsNil /\ (IsNil(u) \/ IsNil(v)) THEN nilCase("<nil map>")
           ELSE IF ~there \/ Kind(v) # "map" THEN {}
           ELSE UNION { IF HasKey(v, k)
                        THEN walk(MapIndex(u, k), MapIndex(v, k), level + 1,
                                  push(path, mapSeg(k)), ro, cap)
                        ELSE {saveDiff(push(path, mapSeg(k)), Sprint(MapIndex(u, k)),
                                       "<does not have key>")}
                        : k \in MapKeys(u) }
                \cup { saveDiff(push(path, mapSeg(k)), "<does not have key>",
                                Sprint(MapIndex(v, k)))
                       : k \in MapKeys(v) \ MapKeys(u) }
      [] Kind(u) = "slice" ->
           IF Kind(v) \in CanIsNil /\ (IsNil(u) \/ IsNil(v)) THEN nilCase("<nil slice>")
           ELSE IF ~there \/ Kind(v) \notin CanLen THEN {}
           ELSE UNION { LET f == [a |-> u, b |-> v, i |-> i]
                            seg == push(path, sliceSeg(i))
                        IN IF ReadsB(f) /\ Kind(v) \notin CanIndex THEN {}
                           ELSE IF i < LenOf(u) /\ i < LenOf(v)
                             THEN walk(Index(u, i), Index(v, i), level + 1, seg, ro, cap)
                           ELSE IF i < LenOf(u)
                             THEN {saveDiff(seg, Sprint(Index(u, i)), "<no value>")}
                           ELSE {saveDiff(seg, "<no value>", Sprint(Index(v, i)))}
                        : i \in 0..(maxLen(u, v) - 1) }
      [] Kind(u) \in FloatKinds ->
           IF Kind(v) \in FloatKinds /\ floatFormat(Heap[u].n) # floatFormat(Heap[v].n)
           THEN {saveDiff(path, Heap[u].s, Heap[v].s)} ELSE {}
      [] Kind(u) \in UintKinds ->
           IF Kind(v) \in UintKinds /\ Heap[u].n # Heap[v].n
           THEN {saveDiff(path, Itoa(Heap[u].n), Itoa(Heap[v].n))} ELSE {}
      [] Kind(u) = "bool" ->
           IF Kind(v) = "bool" /\ Heap[u].n # Heap[v].n
           THEN {saveDiff(path, Btoa(Heap[u].n), Btoa(Heap[v].n))} ELSE {}
      [] Kind(u) \in IntKinds ->
           IF Kind(v) \in IntKinds /\ Heap[u].n # Heap[v].n
           THEN {saveDiff(path, Itoa(Heap[u].n), Itoa(Heap[v].n))} ELSE {}
      [] Kind(u) = "string" ->
           IF String(u) # String(v) THEN {saveDiff(path, String(u), String(v))} ELSE {}
      [] OTHER -> {}

\* What Equal(a, b) finds when MaxDiff cuts nothing short.
Uncapped == walk(a, b, 0, << >>, FALSE, MaxDepth)

\* A depth no acyclic value of the heap reaches.
FullDepth == MaxDepthBound + 2

\* What a walk that is never abandoned for depth finds.
FullWalk == walk(a, b, 0, << >>, FALSE, FullDepth)

Range(seq) == {seq[i] : i \in 1..Len(seq)}

----------------------------------------------------------------------------
\* Vocabulary of the properties.

Done == status # "running"
Returned == status = "returned"

IsPrefix(p, q) == Len(p) <= Len(q) /\ SubSeq(q, 1, Len(p)) = p
Below(p, q) == Len(p) < Len(q) /\ IsPrefix(p, q)

\* The indexes of the difference records emitted at path p.
RecsAt(p) == {j \in 1..Len(recs) : recs[j].path = p}
\* The indexes of the calls of c.equals made at path p.
CallsAt(p) == {j \in 1..Len(calls) : calls[j].path = p}

\* The type of the value a slot holds: an interface slot holds a value of
\* its own type.
DynType(v) == IF Kind(v) = "iface" /\ IsValid(Elem(v)) THEN Type(Elem(v)) ELSE Type(v)

\* Equality of two map or sequence elements, by their content.
RECURSIVE SameValue(_, _)
SameValue(x, y) ==
  IF Kind(x) = "iface" /\ Kind(y) = "iface"
    THEN IF IsValid(Elem(x)) /\ IsValid(Elem(y)) THEN SameValue(Elem(x), Elem(y))
         ELSE Elem(x) = Elem(y)
  ELSE IF Kind(x) \in IntKinds \cup UintKinds \cup FloatKinds \cup {"bool", "string"}
    THEN Type(x) = Type(y) /\ Heap[x].n = Heap[y].n /\ Heap[x].s = Heap[y].s
  ELSE x = y

\* Call c compares two containers of one type and of kind in kinds, both
\* there, within MaxDepth, and the type has no Equal method.
Compares(c, kinds) ==
  /\ c.level <= MaxDepth
  /\ IsValid(c.a) /\ IsValid(c.b)
  /\ Type(c.a) = Type(c.b)
  /\ IsValid(Unwrap(c.a)) /\ IsValid(Unwrap(c.b))
  /\ Type(Unwrap(c.a)) = Type(Unwrap(c.b))
  /\ Type(Unwrap(c.a)) \notin TypesWithEqual
  /\ Kind(Unwrap(c.a)) \in kinds
  /\ ~IsNil(Unwrap(c.a)) /\ ~IsNil(Unwrap(c.b))

CapNotReached == Len(diff) < MaxDiff

\* One sequence compared with itself: the same value, or two slices of one
\* length over one array.
SameSequence(u, v) ==
  \/ u = v
  \/ Kind(u) = "slice" /\ Pointer(u) = Pointer(v) /\ LenOf(u) = LenOf(v)

----------------------------------------------------------------------------
\* C1: the session never holds more than MaxDiff difference records, nor
\* does the returned sequence, and once it holds MaxDiff no step of any
\* loop appends another.
C1_DiffCap ==
  /\ [](Len(diff) <= MaxDiff /\ Len(ret) <= MaxDiff)
  /\ [][Len(diff) >= MaxDiff => diff' = diff]_vars

\* The cap cut a walk short: more differences exist than were returned.
C1_Witness ==
  /\ Returned
  /\ Len(ret) = MaxDiff
  /\ Cardinality(Uncapped) > MaxDiff

\* C2: every examined pair whose dynamic types differ, at the top or held in
\* interface slots below it, yields exactly one type-mismatch record at its
\* path and is not descended into.
C2_TypeMismatchRecorded ==
  Done =>
    \A j \in 1..Len(calls) :
      LET c == calls[j]
      IN (/\ c.level <= MaxDepth
          /\ IsValid(c.a) /\ IsValid(c.b)
          /\ DynType(c.a) # DynType(c.b))
         => /\ Cardinality(RecsAt(c.path)) = 1
            /\ \A r \in RecsAt(c.path) : recs[r].tag = "type"
            /\ \A k \in 1..Len(calls) : ~Below(c.path, calls[k].path)

\* C3: Equal never aborts.
C3_NeverAborts == status # "panic"

\* C4: Equal(x, x) returns the empty result.
C4_Reflexive == (a = b /\ Done) => (Returned /\ ret = << >>)

\* C5: a walked pair of distinct maps, the cap not reached: each key of one
\* side only has exactly one record, with "<does not have key>" on the side
\* that lacks it; each key of both sides is visited once, has no record below
\* it when the values are equal and is recursed into when they are not.
C5_MapCoverage ==
  (Returned /\ CapNotReached) =>
    \A j \in 1..Len(calls) :
      LET c == calls[j]
          u == Unwrap(c.a)
          v == Unwrap(c.b)
      IN (Compares(c, {"map"}) /\ Pointer(u) # Pointer(v)) =>
           \A k \in MapKeys(u) \cup MapKeys(v) :
             LET p == push(c.path, mapSeg(k))
             IN IF ~HasKey(v, k)
                  THEN /\ Cardinality(RecsAt(p)) = 1
                       /\ CallsAt(p) = {}
                       /\ \A r \in RecsAt(p) :
                            diff[r] = saveDiff(p, Sprint(MapIndex(u, k)), "<does not have key>")
                ELSE IF ~HasKey(u, k)
                  THEN /\ Cardinality(RecsAt(p)) = 1
                       /\ CallsAt(p) = {}
                       /\ \A r \in RecsAt(p) :
                            diff[r] = saveDiff(p, "<does not have key>", Sprint(MapIndex(v, k)))
                ELSE /\ Cardinality(CallsAt(p)) = 1
                     /\ \A r \in CallsAt(p) :
                          calls[r] = CallRec(p, MapIndex(u, k), MapIndex(v, k), c.level + 1)
                     /\ SameValue(MapIndex(u, k), MapIndex(v, k)) =>
                          \A r \in 1..Len(recs) : ~IsPrefix(p, recs[r].path)

\* Two maps with a key on the left only, one on the right only and one on
\* both sides were walked to the end.
C5_Witness ==
  /\ Returned /\ CapNotReached
  /\ \E j \in 1..Len(calls) :
       /\ Compares(calls[j], {"map"})
       /\ MapKeys(Unwrap(calls[j].a)) \ MapKeys(Unwrap(calls[j].b)) # {}
       /\ MapKeys(Unwrap(calls[j].b)) \ MapKeys(Unwrap(calls[j].a)) # {}
       /\ MapKeys(Unwrap(calls[j].b)) \cap MapKeys(Unwrap(calls[j].a)) # {}
       /\ RecsAt(push(calls[j].path, mapSeg("k3"))) # {}

\* C6: a compared pair of different slices or arrays of one type, the cap not
\* reached:
\* each index beyond the shorter side has exactly one "<no value>" record,
\* each index of both sides is recursed into, and a pair with an unequal
\* element within MaxDepth leaves a record.
C6_SequenceCoverage ==
  (Returned /\ CapNotReached) =>
    \A j \in 1..Len(calls) :
      LET c == calls[j]
          u == Unwrap(c.a)
          v == Unwrap(c.b)
      IN (Compares(c, {"slice", "array"}) /\ ~SameSequence(u, v)) =>
           /\ \A i \in 0..(maxLen(u, v) - 1) :
                LET p == push(c.path, sliceSeg(i))
                IN IF i < LenOf(u) /\ i < LenOf(v)
                     THEN Cardinality(CallsAt(p)) = 1
                     ELSE Cardinality(RecsAt(p)) = 1 /\ CallsAt(p) = {}
           /\ (/\ c.level < MaxDepth
               /\ \E i \in 0..(maxLen(u, v) - 1) :
                    i < LenOf(u) /\ i < LenOf(v) /\ ~SameValue(Index(u, i), Index(v, i)))
              => \E r \in 1..Len(recs) : IsPrefix(c.path, recs[r].path)

\* One sequence is longer than the other, the cap not reached.
C6_Case ==
  /\ Returned /\ CapNotReached
  /\ \E j \in 1..Len(calls) :
       /\ Compares(calls[j], {"slice", "array"})
       /\ LenOf(Unwrap(calls[j].a)) # LenOf(Unwrap(calls[j].b))

C9_PathBalance ==
  /\ \A k \in 1..Len(stack) : stack[k].level = k - 1
  /\ (Running /\ top.pc \in {"enter", "struct", "mapA", "mapB", "slice"})
        => Len(buff) = top.level
  /\ (Running /\ top.pc \in {"structRet", "mapARet", "sliceRet"})
        => Len(buff) = top.level + 1
  /\ (status = "running" /\ stack = << >>) => buff = << >>
  /\ Returned => buff = << >>
  /\ \A r \in 1..Len(recs) : Len(recs[r].path) = recs[r].depth
  /\ \A j \in 1..Len(calls) : Len(calls[j].path) = calls[j].level

\* A record three levels deep, then one of a later sibling higher up, in a
\* walk that also met the depth guard.
C9_Witness ==
  /\ Returned
  /\ \E r \in 1..Len(recs) : \E q \in 1..Len(recs) :
       recs[r].depth = 3 /\ q > r /\ recs[q].depth < 3
  /\ \E j \in 1..Len(calls) : calls[j].level > MaxDepth

\* C10: when the walk without a cap finds at most MaxDiff differences, Equal
\* returns exactly those, in whatever order the keys of the maps come.
C10_OrderIndependent ==
  (Returned /\ Cardinality(Uncapped) <= MaxDiff) =>
     /\ Range(ret) = Uncapped
     /\ Len(ret) = Cardinality(Uncapped)

\* The keys came in the order k2, k1.
C10_Witness ==
  /\ Returned
  /\ Cardinality(Uncapped) <= MaxDiff
  /\ Len(recs) >= 2
  /\ recs[1].path = << "map[k2]" >>
  /\ recs[2].path = << "map[k1]" >>

====
